---- MODULE Spec2Model ----
(***************************************************************************)
(* Model of src/main.py: the scan orchestrator (perform_scan), the three   *)
(* tool adapters (scan_secrets, run_nuclei, run_testssl), the report       *)
(* consolidator (consolidate_reports) and the scheduler (schedule_scan,    *)
(* main).  External programs (git, detect-secrets, nuclei, testssl.sh) and *)
(* the file system are the environment: every outcome they can produce is  *)
(* a nondeterministic choice of the action that calls them.                *)
(***************************************************************************)
EXTENDS Integers, Sequences, FiniteSets, TLC

(***************************************************************************)
(* Bounds of the model.                                                    *)
(***************************************************************************)
\* Number of 60-second polls that make up one day (1440 in real time).
PollsPerDay == 1
\* The firing and consolidation counters saturate at this value.
MaxFirings == 2
\* Number of successive runs of the report command.
MaxReports == 2

(***************************************************************************)
(* Program constants.                                                      *)
(***************************************************************************)
VALID_SCHEDULES == {"daily", "weekly", "monthly", "once"}
SECRETS_REPORT_FILENAME == "secrets_report.json"
VULN_REPORT_FILENAME == "vulnerability_report.json"
DEFAULT_OUTPUT == "consolidated_report.json"
ALL_TOOLS == {"detect-secrets", "nuclei", "testssl.sh"}
SECRETS_STATUS_MSG == "No secrets scan performed or no secrets found."
VULN_STATUS_MSG == "No vulnerability scans performed."
VULN_ERROR_MSG == "Failed to decode vulnerability report.  Check logs for details."
DaysPerWeek == 7
NONE == << >>
TEMP_REPO == <<"t", "e", "m", "p", "_", "r", "e", "p", "o">>

\* a path of the caller's own, given as `report --output`
CUSTOM_OUTPUT == "report.json"

Files == {SECRETS_REPORT_FILENAME, VULN_REPORT_FILENAME, DEFAULT_OUTPUT,
          CUSTOM_OUTPUT}

\* --output: not given (""), a path of the caller's own, or a path that
\* happens to name a raw report file
Outputs == {"", CUSTOM_OUTPUT, SECRETS_REPORT_FILENAME, VULN_REPORT_FILENAME}

\* line 318: args.output or "consolidated_report.json"
OutputPath(o) == IF o = "" THEN DEFAULT_OUTPUT ELSE o

(***************************************************************************)
(* Strings the code inspects are sequences of characters.                  *)
(***************************************************************************)
IsPrefix(p, s) == Len(p) <= Len(s) /\ SubSeq(s, 1, Len(p)) = p

HTTP_PREFIX == <<"h", "t", "t", "p", ":", "/", "/">>
HTTPS_PREFIX == <<"h", "t", "t", "p", "s", ":", "/", "/">>

\* re.match(r'^(http|https)://', target)
IsURL(t) == IsPrefix(HTTP_PREFIX, t) \/ IsPrefix(HTTPS_PREFIX, t)

T_HTTPS == <<"h", "t", "t", "p", "s", ":", "/", "/", "h">>
T_HTTP == <<"h", "t", "t", "p", ":", "/", "/", "h">>
T_PATH == <<"/", "r">>
T_HTTPDIR == <<"h", "t", "t", "p", "/", "r">>
Targets == {T_HTTPS, T_HTTP, T_PATH, T_HTTPDIR}

(***************************************************************************)
(* File contents and JSON values.  A file is absent, or holds a text: the  *)
(* serialisation of a JSON value, or a text json.load rejects (an empty    *)
(* or truncated file, several JSON lines).                                 *)
(***************************************************************************)
Absent == <<"absent">>
Garbage == <<"garbage">>
Partial == <<"partial">>
JsonLines == <<"jsonl">>
\* a file of length zero
Empty == <<"empty">>
\* a path that exists but cannot be read as text: bytes that are not UTF-8,
\* or a directory
Unreadable == <<"unreadable">>

EmptyObj == <<"object">>
Obj1(k, v) == <<"object", k, v>>
Obj2(k1, v1, k2, v2) == <<"object", k1, v1, k2, v2>>
Doc(name) == <<"doc", name>>

\* json.dump(value, f): the text written
JsonDump(v) == <<"json", v>>
\* open(path) and json.load(f): the value, or the exception raised: a
\* JSONDecodeError for text that is not JSON, another exception
\* (UnicodeDecodeError, IsADirectoryError) when the text cannot be read
JsonLoad(text) ==
    IF text[1] = "json" THEN [ok |-> TRUE, err |-> "none", val |-> text[2]]
    ELSE IF text = Unreadable
    THEN [ok |-> FALSE, err |-> "Exception", val |-> EmptyObj]
    ELSE [ok |-> FALSE, err |-> "JSONDecodeError", val |-> EmptyObj]

Exists(content) == content # Absent

Keep == <<"keep">>

VARIABLES
    target,          \* --target / perform_scan(target, ...)
    tools,           \* --tools / perform_scan(..., tools); {} is None
    cadence,         \* --schedule / schedule_scan(..., schedule_type, ...)
    entry,           \* "main" (the scan command), "schedule_scan" (called
                     \* directly) or "report" (the report command)
    output,          \* --output of the report command
    targetDir,       \* what the target path names on disk
    fs,              \* contents of the report files in the working directory
    tempRepo,        \* the path temp_repo: "absent", "file", "dir", "cloned"
    pc,              \* position of main / schedule_scan / scheduled_job
    spc,             \* position inside perform_scan
    temp_dir,        \* perform_scan's local temp_dir
    scan_target,     \* perform_scan's local scan_target
    retval,          \* value perform_scan returns: "none", "True", "False"
    gitTracked,      \* whether scan_target really is inside a git work tree
    events,          \* what the current (or just ended) firing did, in order
    results,         \* what each adapter returned in the current firing
    remaining,       \* polls left until the registered job is due
    firings,         \* number of scheduled_job / perform_scan runs started
    consolidations,  \* number of consolidate_reports calls made
    before           \* the files as they were before the latest report run

vars == <<target, tools, cadence, entry, output, targetDir, fs, tempRepo, pc,
          spc, temp_dir, scan_target, retval, gitTracked, events, results,
          remaining, firings, consolidations, before>>

inputs == <<target, tools, cadence, entry, output, targetDir, before>>

NoResults == [t \in ALL_TOOLS |-> "notrun"]

Recurring == {"daily", "weekly", "monthly"}

\* The raw files and the report a working directory can hold at start.
InitRaw == {Absent, Garbage}
\* the vulnerability raw file may also be unreadable
InitVuln == {Unreadable}
\* raw files an earlier run of the program left, for this or another target
StaleSecrets == JsonDump(Doc("findings"))
StaleVuln == JsonDump(Doc("nuclei"))

\* The raw files the report command can find: left by earlier scans.
ReportRaw ==
    {Absent, Garbage, JsonDump(EmptyObj), JsonDump(Doc("findings"))}

\* the scan command, or schedule_scan called directly
InitScan ==
    /\ target \in Targets
    /\ tools \in SUBSET ALL_TOOLS
    /\ \/ entry = "main" /\ cadence \in VALID_SCHEDULES
       \/ entry = "schedule_scan" /\ cadence \in {"once", "hourly"}
    /\ output = ""
    /\ targetDir \in IF IsURL(target) THEN {"missing"}
                     ELSE {"missing", "nodotgit", "dotgit", "fakedotgit"}
    /\ fs \in {f \in [Files -> InitRaw \cup InitVuln \cup {StaleSecrets, StaleVuln}] :
                  /\ f[DEFAULT_OUTPUT] = Absent /\ f[CUSTOM_OUTPUT] = Absent
                  /\ f[SECRETS_REPORT_FILENAME] \in InitRaw \cup {StaleSecrets}
                  /\ f[VULN_REPORT_FILENAME] \in
                        InitRaw \cup InitVuln \cup {StaleVuln}}
    /\ tempRepo \in IF IsURL(target) THEN {"absent", "dir", "file"}
                    ELSE {"absent", "dir"}

\* the report command: no target, no tools, no schedule
InitReport ==
    /\ entry = "report"
    /\ target = NONE
    /\ tools = {}
    /\ cadence = "none"
    /\ output \in Outputs
    /\ targetDir = "missing"
    /\ fs \in {f \in [Files -> ReportRaw \cup InitVuln] :
                  /\ f[DEFAULT_OUTPUT] = Absent /\ f[CUSTOM_OUTPUT] = Absent
                  /\ f[SECRETS_REPORT_FILENAME] \in ReportRaw}
    /\ tempRepo = "absent"

Init ==
    /\ InitScan \/ InitReport
    /\ pc = "start"
    /\ spc = "idle"
    /\ temp_dir = NONE
    /\ scan_target = NONE
    /\ retval = "none"
    /\ gitTracked = FALSE
    /\ events = << >>
    /\ results = NoResults
    /\ remaining = 0
    /\ firings = 0
    /\ consolidations = 0
    /\ before = IF entry = "report" THEN fs ELSE [f \in Files |-> Absent]

(***************************************************************************)
(* The environment perform_scan reads.                                     *)
(***************************************************************************)
\* os.path.isdir(target)
TargetIsDir == targetDir # "missing"

\* os.path.isdir(path)
PathIsDir(p) ==
    IF p = TEMP_REPO THEN tempRepo \in {"dir", "cloned"}
    ELSE p = target /\ TargetIsDir

\* os.path.isdir(os.path.join(path, ".git"))
HasDotGit(p) ==
    IF p = TEMP_REPO THEN tempRepo = "cloned"
    ELSE p = target /\ targetDir \in {"dotgit", "fakedotgit"}

\* the path really is a git work tree of its own: a clone, or a target
\* directory whose .git is a repository ("fakedotgit" names a directory
\* that holds an entry .git which is not one, such as an empty directory)
IsWorkTree(p) ==
    IF p = TEMP_REPO THEN tempRepo = "cloned"
    ELSE p = target /\ targetDir = "dotgit"

\* What `git rev-parse --is-inside-work-tree` can answer: stdout "true" with
\* exit 0, anything else, or git is not installed; or git never exits (no
\* timeout is passed at line 54).
RevParseOutcomes == {"true", "false", "FileNotFoundError", "hang"}

\* is_git_repository(path), rp being the answer of git rev-parse
IsGitRepository(p, rp) == HasDotGit(p) \/ rp = "true"

\* os.makedirs(temp_dir, exist_ok=True)
MakedirsOutcomes == {"ok", "OSError"}
\* clone_repository: returns, or re-raises what subprocess.run raised (one
\* handler each for CalledProcessError, FileNotFoundError and any other
\* Exception), or never returns because git clone never exits (no timeout
\* at line 71)
CloneOutcomes ==
    {"ok", "CalledProcessError", "FileNotFoundError", "Exception", "hang"}

\* what a git clone that did not succeed leaves in temp_repo: the empty
\* directory, or a clone with its .git
CloneLeaves == {"dir", "cloned"}

\* temp_repo after a git clone that ran and did not succeed
AfterClone(left) == IF tempRepo = "cloned" THEN "cloned" ELSE left

\* if not tools: tools = [all three]
EffectiveTools == IF tools = {} THEN ALL_TOOLS ELSE tools

Inc(n) == IF n < MaxFirings THEN n + 1 ELSE n

Last(s) == s[Len(s)]

Occurs(e) == \E i \in 1..Len(events) : events[i] = e

Count(e) == Cardinality({i \in 1..Len(events) : events[i] = e})

(***************************************************************************)
(* perform_scan, lines 205-267.                                            *)
(***************************************************************************)
\* perform_scan is entered: its locals are fresh.
BeginScan ==
    /\ pc' = "firing"
    /\ spc' = "resolve"
    /\ temp_dir' = NONE
    /\ scan_target' = NONE
    /\ retval' = "none"
    /\ gitTracked' = FALSE
    /\ events' = << >>
    /\ results' = NoResults
    /\ firings' = Inc(firings)

\* lines 211-224: classify the target and materialise the path to scan
Resolve ==
    /\ pc = "firing" /\ spc = "resolve"
    /\ IF IsURL(target)
       THEN \E mk \in MakedirsOutcomes, cl \in CloneOutcomes, left \in CloneLeaves :
              /\ temp_dir' = TEMP_REPO
              /\ IF tempRepo = "file" \/ (mk = "OSError" /\ tempRepo = "absent")
                 THEN \* the directory could not be created, or the path
                      \* is a regular file: makedirs raised, except
                      \* Exception (line 256)
                      /\ tempRepo' = tempRepo
                      /\ scan_target' = NONE
                      /\ retval' = "False"
                      /\ spc' = "finally"
                      /\ events' = Append(events, <<"makedirs", "OSError">>)
                 ELSE IF cl = "hang"
                 THEN \* git clone never exits: perform_scan is blocked
                      /\ tempRepo' = AfterClone(left)
                      /\ scan_target' = NONE
                      /\ retval' = retval
                      /\ spc' = "githung"
                      /\ events' = events
                 ELSE IF cl = "ok" /\ tempRepo # "cloned"
                 THEN /\ tempRepo' = "cloned"
                      /\ scan_target' = TEMP_REPO
                      /\ retval' = retval
                      /\ spc' = "gitcheck"
                      /\ events' = Append(events, <<"clone", "ok">>)
                 ELSE \* git clone failed, git is missing or subprocess.run
                      \* raised something else: re-raised
                      /\ tempRepo' = IF cl = "FileNotFoundError"
                                     THEN AfterClone("dir") ELSE AfterClone(left)
                      /\ scan_target' = NONE
                      /\ retval' = "False"
                      /\ spc' = "finally"
                      /\ events' = Append(events,
                            <<"clone", IF cl = "ok" THEN "CalledProcessError" ELSE cl>>)
       ELSE /\ temp_dir' = temp_dir
            /\ tempRepo' = tempRepo
            /\ IF TargetIsDir
               THEN /\ scan_target' = target
                    /\ retval' = retval
                    /\ spc' = "gitcheck"
                    /\ events' = Append(events, <<"local", "ok">>)
               ELSE /\ scan_target' = NONE
                    /\ retval' = "False"
                    /\ spc' = "finally"
                    /\ events' = Append(events, <<"local", "invalid">>)
    /\ UNCHANGED <<inputs, fs, pc, gitTracked, results, remaining, firings,
                   consolidations>>

\* lines 226-229: the git repository check
CheckGit ==
    /\ pc = "firing" /\ spc = "gitcheck"
    /\ \E rp \in RevParseOutcomes :
          \* with a .git entry git is not asked (lines 50-51); without
          \* one, git's answer tells whether the path is in a work tree
          /\ gitTracked' = IF HasDotGit(scan_target)
                            THEN IsWorkTree(scan_target) ELSE rp = "true"
          /\ IF ~HasDotGit(scan_target) /\ rp = "hang"
             THEN \* git rev-parse never exits: perform_scan is blocked
                  /\ spc' = "githung"
                  /\ retval' = retval
                  /\ events' = events
             ELSE IF IsGitRepository(scan_target, rp)
             THEN /\ spc' = "secrets"
                  /\ retval' = retval
                  /\ events' = Append(events, <<"resolved", "ok">>)
             ELSE /\ spc' = "finally"
                  /\ retval' = "False"
                  /\ events' = Append(events, <<"resolved", "notgit">>)
    /\ UNCHANGED <<inputs, fs, tempRepo, pc, temp_dir, scan_target, results,
                   remaining, firings, consolidations>>

(***************************************************************************)
(* The tool adapters.  A run of an external tool is what subprocess.run    *)
(* does: it raises FileNotFoundError (binary missing) or another           *)
(* exception, never returns (the tool hangs; no timeout is passed), or the *)
(* tool exits with a code, a stderr text and possibly a report file.       *)
(***************************************************************************)
Launches == {"FileNotFoundError", "Exception", "hang", "exited"}

\* subprocess.run raised before the binary was started
NoExit(l) ==
    [launch |-> l, started |-> FALSE, rc |-> 0, marker |-> FALSE, wrote |-> Keep]

\* the binary was started and ran: then it never exits ("hang"), or
\* subprocess.run raises when it decodes the captured output ("Exception")
Ran(l, w) ==
    [launch |-> l, started |-> TRUE, rc |-> 0, marker |-> FALSE, wrote |-> w]

Exited(r, m, w) ==
    [launch |-> "exited", started |-> TRUE, rc |-> r, marker |-> m, wrote |-> w]

\* what each tool can leave in its output file
SecretsWrites == {Keep, JsonDump(Doc("findings"))}
NucleiWrites == {Keep, JsonDump(Doc("nuclei")), JsonLines}
TestsslWrites == {Keep, JsonDump(Doc("testssl"))}

\* marker: "No secrets found!" occurs in stderr
SecretsRuns ==
    {NoExit(l) : l \in {"FileNotFoundError", "Exception"}} \cup
    {Ran(l, w) : l \in {"Exception", "hang"}, w \in SecretsWrites} \cup
    {Exited(r, m, w) : r \in {0, 1}, m \in BOOLEAN, w \in SecretsWrites}

NucleiRuns ==
    {NoExit(l) : l \in {"FileNotFoundError", "Exception"}} \cup
    {Ran(l, w) : l \in {"Exception", "hang"}, w \in NucleiWrites} \cup
    {Exited(r, FALSE, w) : r \in {0, 1}, w \in NucleiWrites}

TestsslRuns ==
    {NoExit(l) : l \in {"FileNotFoundError", "Exception"}} \cup
    {Ran(l, w) : l \in {"Exception", "hang"}, w \in TestsslWrites} \cup
    {Exited(r, FALSE, w) : r \in {0, 1}, w \in TestsslWrites}

\* open(SECRETS_REPORT_FILENAME, 'w') and json.dump({}, f) in scan_secrets:
\* both succeed, open raises, or open truncates the file and the write fails
OpenOutcomes == {"ok", "OSError", "write_fail"}

\* what a write that fails leaves in the file open(path, 'w') truncated:
\* nothing, or the bytes written before the failure
WriteLeaves == {Empty, Partial}

\* the file as the tool left it
ToolWrote(run, old) == IF run.wrote = Keep THEN old ELSE run.wrote

\* scan_secrets, lines 83-112: value returned and the secrets raw file
ScanSecrets(run, io, left, old) ==
    IF run.launch # "exited" THEN [ret |-> "False", file |-> ToolWrote(run, old)]
    ELSE IF run.rc # 0 /\ ~run.marker
    THEN [ret |-> "True", file |-> ToolWrote(run, old)]
    ELSE IF run.marker
    THEN IF io = "ok"
         THEN [ret |-> "True", file |-> JsonDump(EmptyObj)]
         ELSE IF io = "write_fail"
         THEN [ret |-> "False", file |-> left]
         ELSE [ret |-> "False", file |-> ToolWrote(run, old)]
    ELSE [ret |-> "True", file |-> ToolWrote(run, old)]

\* run_nuclei, lines 115-141
RunNuclei(t, run, old) ==
    IF ~IsURL(t) THEN [ret |-> "False", file |-> old, exec |-> FALSE]
    ELSE IF run.launch # "exited"
    THEN [ret |-> "False", file |-> ToolWrote(run, old), exec |-> TRUE]
    ELSE [ret |-> "True", file |-> ToolWrote(run, old), exec |-> TRUE]

\* run_testssl, lines 143-166
RunTestssl(t, run, old) ==
    IF run.launch # "exited"
    THEN [ret |-> "False", file |-> ToolWrote(run, old), exec |-> TRUE]
    ELSE [ret |-> "True", file |-> ToolWrote(run, old), exec |-> TRUE]

\* subprocess.run was reached and the binary was started
Started(run) == run.started

\* events of one adapter call that returned
CallEvents(tool, started) ==
    <<<<"invoke", tool>>>> \o
    (IF started THEN <<<<"exec", tool>>>> ELSE << >>) \o
    <<<<"return", tool>>>>

\* events of one scan_secrets call that returned; the signal event records
\* that "No secrets found!" was in the stderr of the tool (line 93)
SecretsEvents(run) ==
    <<<<"invoke", "detect-secrets">>>> \o
    (IF Started(run) THEN <<<<"exec", "detect-secrets">>>> ELSE << >>) \o
    (IF run.launch = "exited" /\ run.marker
     THEN <<<<"signal", "detect-secrets">>>> ELSE << >>) \o
    <<<<"return", "detect-secrets">>>>

\* events of one adapter call whose tool never exits
HangEvents(tool) == <<<<"invoke", tool>>, <<"exec", tool>>>>

\* where perform_scan continues after the adapter stage `stage`; the value
\* the adapter returned is discarded by perform_scan
AfterAdapter_Abort(stage, ret) ==
    IF ret = "False" THEN "finally"
    ELSE CASE stage = "secrets" -> "nuclei"
           [] stage = "nuclei" -> "testssl"
           [] OTHER -> "finally"
AfterAdapter_Reordered(stage, ret) ==
    CASE stage = "secrets" -> "testssl"
      [] stage = "testssl" -> "nuclei"
      [] OTHER -> "finally"
AfterAdapter(stage, ret) ==
    CASE stage = "secrets" -> "nuclei"
      [] stage = "nuclei" -> "testssl"
      [] OTHER -> "finally"

\* line 240: the outer condition of the nuclei block
NucleiSelected ==
    "nuclei" \in EffectiveTools /\ (IsURL(target) \/ TargetIsDir)

\* line 241: run_nuclei is called
NucleiApplies == IsURL(target)

\* line 247: run_testssl is called
TestsslApplies_Always == TRUE
TestsslApplies == IsURL(target)

\* line 254: return True
ReturnValue_FromAdapters ==
    IF \E t \in ALL_TOOLS : results[t] \in {"False", "skipped"}
    THEN "False" ELSE "True"
ReturnValue == "True"

\* lines 236-237
SecretsStage ==
    /\ pc = "firing" /\ spc = "secrets"
    /\ IF "detect-secrets" \in EffectiveTools
       THEN \E run \in SecretsRuns :
            \* the write of lines 96-97 is reached only after the signal
            \E io \in (IF run.launch = "exited" /\ run.marker
                        THEN OpenOutcomes ELSE {"ok"}) :
            \E left \in (IF io = "write_fail" THEN WriteLeaves ELSE {Empty}) :
              IF run.launch = "hang"
              THEN /\ spc' = "hung"
                   /\ events' = events \o HangEvents("detect-secrets")
                   /\ fs' = [fs EXCEPT ![SECRETS_REPORT_FILENAME] =
                                 ToolWrote(run, fs[SECRETS_REPORT_FILENAME])]
                   /\ UNCHANGED results
              ELSE LET r == ScanSecrets(run, io, left,
                                        fs[SECRETS_REPORT_FILENAME]) IN
                   /\ fs' = [fs EXCEPT ![SECRETS_REPORT_FILENAME] = r.file]
                   /\ results' = [results EXCEPT !["detect-secrets"] = r.ret]
                   /\ events' = events \o SecretsEvents(run)
                   /\ spc' = AfterAdapter("secrets", r.ret)
       ELSE /\ spc' = "nuclei"
            /\ UNCHANGED <<fs, results, events>>
    /\ UNCHANGED <<inputs, tempRepo, pc, temp_dir, scan_target, retval,
                   gitTracked, remaining, firings, consolidations>>

\* lines 239-244
NucleiStage ==
    /\ pc = "firing" /\ spc = "nuclei"
    /\ IF NucleiSelected
       THEN IF NucleiApplies
            THEN \E run \in NucleiRuns :
                   LET r == RunNuclei(target, run, fs[VULN_REPORT_FILENAME]) IN
                   IF r.exec /\ run.launch = "hang"
                   THEN /\ spc' = "hung"
                        /\ events' = events \o HangEvents("nuclei")
                        /\ fs' = [fs EXCEPT ![VULN_REPORT_FILENAME] =
                                      ToolWrote(run, fs[VULN_REPORT_FILENAME])]
                        /\ UNCHANGED results
                   ELSE /\ fs' = [fs EXCEPT ![VULN_REPORT_FILENAME] = r.file]
                        /\ results' = [results EXCEPT !["nuclei"] = r.ret]
                        /\ events' = events \o
                              CallEvents("nuclei", r.exec /\ Started(run))
                        /\ spc' = AfterAdapter("nuclei", r.ret)
            ELSE /\ results' = [results EXCEPT !["nuclei"] = "skipped"]
                 /\ events' = Append(events, <<"skip", "nuclei">>)
                 /\ spc' = AfterAdapter("nuclei", "skipped")
                 /\ UNCHANGED fs
       ELSE /\ spc' = "testssl"
            /\ UNCHANGED <<fs, results, events>>
    /\ UNCHANGED <<inputs, tempRepo, pc, temp_dir, scan_target, retval,
                   gitTracked, remaining, firings, consolidations>>

\* lines 246-254
TestsslStage ==
    /\ pc = "firing" /\ spc = "testssl"
    /\ IF "testssl.sh" \in EffectiveTools
       THEN IF TestsslApplies
            THEN \E run \in TestsslRuns :
                   LET r == RunTestssl(target, run, fs[VULN_REPORT_FILENAME]) IN
                   IF run.launch = "hang"
                   THEN /\ spc' = "hung"
                        /\ events' = events \o HangEvents("testssl.sh")
                        /\ fs' = [fs EXCEPT ![VULN_REPORT_FILENAME] =
                                      ToolWrote(run, fs[VULN_REPORT_FILENAME])]
                        /\ UNCHANGED <<results, retval>>
                   ELSE /\ fs' = [fs EXCEPT ![VULN_REPORT_FILENAME] = r.file]
                        /\ results' = [results EXCEPT !["testssl.sh"] = r.ret]
                        /\ events' = events \o
                              CallEvents("testssl.sh", Started(run))
                        /\ spc' = AfterAdapter("testssl", r.ret)
                        /\ retval' = ReturnValue
            ELSE /\ results' = [results EXCEPT !["testssl.sh"] = "skipped"]
                 /\ events' = Append(events, <<"skip", "testssl.sh">>)
                 /\ spc' = AfterAdapter("testssl", "skipped")
                 /\ retval' = ReturnValue
                 /\ UNCHANGED fs
       ELSE /\ spc' = "finally"
            /\ retval' = ReturnValue
            /\ UNCHANGED <<fs, results, events>>
    /\ UNCHANGED <<inputs, tempRepo, pc, temp_dir, scan_target, gitTracked,
                   remaining, firings, consolidations>>

\* shutil.rmtree(temp_dir)
RmtreeOutcomes == {"ok", "OSError"}

\* what an rmtree that raised leaves: everything, or the directory emptied
\* of what it could remove (the .git included)
RmtreeLeaves == {"all", "emptied"}

\* line 261: the finally block removes the directory
ShouldCleanup_OnSuccess ==
    temp_dir # NONE /\ tempRepo # "absent" /\ retval = "True"
ShouldCleanup == temp_dir # NONE /\ tempRepo # "absent"

\* lines 259-267: the finally block, then perform_scan returns retval
Finally ==
    /\ pc = "firing" /\ spc = "finally"
    /\ IF ShouldCleanup
       THEN \E rm \in RmtreeOutcomes, kept \in RmtreeLeaves :
              \* rmtree of a regular file always raises
              /\ tempRepo = "file" => rm = "OSError"
              /\ tempRepo' = IF rm = "ok" THEN "absent"
                              ELSE IF kept = "emptied" /\ tempRepo = "cloned"
                              THEN "dir" ELSE tempRepo
              /\ events' = events \o <<<<"cleanup", rm>>, <<"returned", retval>>>>
       ELSE /\ tempRepo' = tempRepo
            /\ events' = Append(events, <<"returned", retval>>)
    /\ spc' = "returned"
    /\ UNCHANGED <<inputs, fs, pc, temp_dir, scan_target, retval, gitTracked,
                   results, remaining, firings, consolidations>>

(***************************************************************************)
(* consolidate_reports, lines 169-203.                                     *)
(***************************************************************************)
\* what opening and writing the output file can do
WriteOutcomes == {"ok", "open_fail", "write_fail"}

\* lines 175-179: the "secrets" entry; a JSONDecodeError is not caught here
SecretsEntry_NoPlaceholder(f) ==
    IF Exists(f[SECRETS_REPORT_FILENAME])
    THEN JsonLoad(f[SECRETS_REPORT_FILENAME])
    ELSE [ok |-> TRUE, err |-> "none", val |-> EmptyObj]
SecretsEntry(f) ==
    IF Exists(f[SECRETS_REPORT_FILENAME])
    THEN JsonLoad(f[SECRETS_REPORT_FILENAME])
    ELSE [ok |-> TRUE, err |-> "none", val |-> Obj1("status", SECRETS_STATUS_MSG)]

\* lines 182-191: the "vulnerabilities" entry; the inner handler catches a
\* JSONDecodeError only
VulnEntry(f) ==
    IF Exists(f[VULN_REPORT_FILENAME])
    THEN IF JsonLoad(f[VULN_REPORT_FILENAME]).err = "JSONDecodeError"
         THEN [ok |-> TRUE, err |-> "none", val |-> Obj1("error", VULN_ERROR_MSG)]
         ELSE JsonLoad(f[VULN_REPORT_FILENAME])
    ELSE [ok |-> TRUE, err |-> "none", val |-> Obj1("status", VULN_STATUS_MSG)]

\* how the call ends: the report was written, or an exception reached the
\* handlers of lines 200-203
ConsolidateOutcome(f, io) ==
    IF ~SecretsEntry(f).ok \/ ~VulnEntry(f).ok THEN "decode_abort"
    ELSE IF io = "ok" THEN "written"
    ELSE io

\* the files after consolidate_reports(out)
ConsolidateReports(f, out, io, left) ==
    IF ConsolidateOutcome(f, io) = "written"
    THEN [f EXCEPT ![out] = JsonDump(Obj2("secrets", SecretsEntry(f).val,
                                          "vulnerabilities", VulnEntry(f).val))]
    ELSE IF ConsolidateOutcome(f, io) = "write_fail"
    THEN [f EXCEPT ![out] = left]
    ELSE f

(***************************************************************************)
(* scheduled_job (lines 272-278) and the 'once' branch of main (308-311).  *)
(***************************************************************************)
\* the job consolidates after this scan
JobConsolidates_Always == TRUE
JobConsolidates == retval = "True"

\* schedule.every().<unit>: the units a schedule Job offers
JobUnits == {"second", "minute", "hour", "day", "week"}

Unit(c) ==
    CASE c = "daily" -> "day"
      [] c = "weekly" -> "week"
      [] c = "monthly" -> "month"
      [] OTHER -> "none"

\* lines 280-291: what schedule_scan does with schedule_type
ScheduleKind(c) ==
    IF c \in {"daily", "weekly", "monthly"}
    THEN IF Unit(c) \in JobUnits THEN "registered" ELSE "AttributeError"
    ELSE IF c = "once" THEN "run_now"
    ELSE "invalid"

\* polls between two runs of the registered job
Period(c) == IF c = "weekly" THEN DaysPerWeek * PollsPerDay ELSE PollsPerDay

\* where control goes when scheduled_job (or main's once branch) is over
AfterJob_Loop == "sleep"
AfterJob_StopOnFailure ==
    IF cadence = "once" \/ retval # "True" THEN "exit" ELSE "sleep"
AfterJob == IF cadence = "once" THEN "exit" ELSE "sleep"

\* perform_scan's locals are gone once it has returned
JobEnd ==
    /\ pc' = AfterJob
    /\ spc' = "idle"
    /\ remaining' = IF cadence = "once" THEN remaining ELSE Period(cadence)
    /\ temp_dir' = NONE
    /\ scan_target' = NONE
    /\ retval' = "none"
    /\ gitTracked' = FALSE

\* perform_scan returned True: consolidate_reports()
JobConsolidate ==
    /\ pc = "firing" /\ spc = "returned"
    /\ JobConsolidates
    /\ \E io \in WriteOutcomes :
       \E left \in (IF io = "write_fail" THEN WriteLeaves ELSE {Empty}) :
          /\ fs' = ConsolidateReports(fs, DEFAULT_OUTPUT, io, left)
          /\ events' = Append(events, <<"consolidate", ConsolidateOutcome(fs, io)>>)
    /\ consolidations' = Inc(consolidations)
    /\ JobEnd
    /\ UNCHANGED <<inputs, tempRepo, results, firings>>

\* perform_scan returned False: the failure is logged
JobFailed ==
    /\ pc = "firing" /\ spc = "returned"
    /\ ~JobConsolidates
    /\ events' = Append(events, <<"failed", "logged">>)
    /\ JobEnd
    /\ UNCHANGED <<inputs, fs, tempRepo, results, firings, consolidations>>

(***************************************************************************)
(* main (lines 305-315) and schedule_scan (lines 269-296).                 *)
(***************************************************************************)
\* main dispatches the scan command, or schedule_scan is called directly
Start ==
    /\ pc = "start"
    /\ entry \in {"main", "schedule_scan"}
    /\ IF entry = "main" /\ cadence = "once"
       THEN /\ BeginScan
            /\ UNCHANGED <<inputs, fs, tempRepo, remaining, consolidations>>
       ELSE /\ pc' = "schedule_scan"
            /\ UNCHANGED <<inputs, fs, tempRepo, spc, temp_dir, scan_target,
                           retval, gitTracked, events, results, remaining,
                           firings, consolidations>>

\* lines 280-293
ScheduleScan ==
    /\ pc = "schedule_scan"
    /\ IF ScheduleKind(cadence) = "run_now"
       THEN /\ BeginScan
            /\ UNCHANGED <<inputs, fs, tempRepo, remaining, consolidations>>
       ELSE /\ IF ScheduleKind(cadence) = "registered"
               THEN /\ pc' = "run_pending"
                    /\ remaining' = Period(cadence)
                    /\ events' = Append(events, <<"registered", cadence>>)
               ELSE \* the error is logged (line 290), or AttributeError is
                    \* raised and logged by main (line 315)
                    /\ pc' = "exit"
                    /\ remaining' = remaining
                    /\ events' = Append(events, <<"error", ScheduleKind(cadence)>>)
            /\ UNCHANGED <<inputs, fs, tempRepo, spc, temp_dir, scan_target,
                           retval, gitTracked, results, firings, consolidations>>

\* line 295: schedule.run_pending()
RunPending ==
    /\ pc = "run_pending"
    /\ IF remaining = 0
       THEN /\ BeginScan
            /\ UNCHANGED <<inputs, fs, tempRepo, remaining, consolidations>>
       ELSE /\ pc' = "sleep"
            /\ UNCHANGED <<inputs, fs, tempRepo, spc, temp_dir, scan_target,
                           retval, gitTracked, events, results, remaining,
                           firings, consolidations>>

\* line 296: time.sleep(60); the record of the firing that just ended is
\* dropped, events and results describe the current firing only
Sleep ==
    /\ pc = "sleep"
    /\ pc' = "run_pending"
    /\ remaining' = IF remaining > 0 THEN remaining - 1 ELSE 0
    /\ events' = << >>
    /\ results' = NoResults
    /\ UNCHANGED <<inputs, fs, tempRepo, spc, temp_dir, scan_target, retval,
                   gitTracked, firings, consolidations>>

\* lines 317-318: the report command, run up to MaxReports times in a row
Report ==
    /\ entry = "report"
    /\ pc \in {"start", "exit"}
    /\ consolidations < MaxReports
    /\ \E io \in WriteOutcomes :
       \E left \in (IF io = "write_fail" THEN WriteLeaves ELSE {Empty}) :
          /\ fs' = ConsolidateReports(fs, OutputPath(output), io, left)
          /\ events' = <<<<"report", ConsolidateOutcome(fs, io)>>>>
    /\ before' = fs
    /\ consolidations' = consolidations + 1
    /\ pc' = "exit"
    /\ UNCHANGED <<target, tools, cadence, entry, output, targetDir, tempRepo,
                   spc, temp_dir, scan_target, retval, gitTracked, results,
                   remaining, firings>>

Next ==
    \/ Start
    \/ Report
    \/ ScheduleScan
    \/ RunPending
    \/ Sleep
    \/ Resolve
    \/ CheckGit
    \/ SecretsStage
    \/ NucleiStage
    \/ TestsslStage
    \/ Finally
    \/ JobConsolidate
    \/ JobFailed

Spec == Init /\ [][Next]_vars

\* The process takes its next step whenever it has one.
\* The scans the liveness check starts from: no raw file and no temp_repo
\* left behind, one target of each kind (T_HTTP resolves and scans as
\* T_HTTPS does) and one spelling of "all tools" (an empty --tools).
LiveInit ==
    /\ Init
    /\ entry # "report"
          => /\ tempRepo = "absent"
             /\ \A f \in Files : fs[f] = Absent
             /\ target # T_HTTP
             /\ tools # ALL_TOOLS

FairSpec == LiveInit /\ [][Next]_vars /\ WF_vars(Next)

(***************************************************************************)
(* Properties.                                                             *)
(***************************************************************************)
\* the tools the caller asked for (all three when none is named)
Requested == IF tools = {} THEN {"detect-secrets", "nuclei", "testssl.sh"} ELSE tools

\* the applicability table: detect-secrets runs on any resolved target, the
\* other two on URL targets only
Applicable(t) == t = "detect-secrets" \/ IsURL(target)

Resolved == Occurs(<<"resolved", "ok">>)

AdapterStages == {"secrets", "nuclei", "testssl", "hung"}

\* the adapter stage of tool t lies behind perform_scan
StageDone(t) ==
    /\ pc = "firing"
    /\ spc \in CASE t = "detect-secrets" -> {"nuclei", "testssl", "finally", "returned"}
                 [] t = "nuclei" -> {"testssl", "finally", "returned"}
                 [] OTHER -> {"finally", "returned"}

\* C1: for a remote URL target, once perform_scan has returned, the
\* directory temp_repo does not exist, whether the clone succeeded or
\* failed and whatever the adapters did, provided rmtree did not fail.
C1_WorkspaceRemoved ==
    (spc = "returned" /\ IsURL(target) /\ ~Occurs(<<"cleanup", "OSError">>))
        => tempRepo = "absent"

C1_Witness ==
    /\ spc = "returned" /\ IsURL(target)
    /\ Occurs(<<"clone", "CalledProcessError">>)
    /\ Occurs(<<"cleanup", "ok">>)
    /\ tempRepo = "absent"

\* C2: once the target is resolved, every requested adapter that is
\* applicable to the target kind is invoked exactly once, whatever the
\* other adapters returned; no adapter is ever invoked twice in a scan.
C2_EachAdapterOnce ==
    \A t \in ALL_TOOLS :
        /\ Count(<<"invoke", t>>) <= 1
        /\ (Resolved /\ StageDone(t) /\ t \in Requested /\ Applicable(t))
              => Count(<<"invoke", t>>) = 1

C2_Witness ==
    /\ spc = "returned"
    /\ results["detect-secrets"] = "False"
    /\ results["nuclei"] = "False"
    /\ Count(<<"invoke", "testssl.sh">>) = 1
    /\ ~Occurs(<<"exec", "detect-secrets">>)

\* C3: no adapter is invoked unless resolution succeeded; a scan whose
\* resolution failed returns False with no adapter invoked; while the
\* adapters run, scan_target is an existing directory inside a git work tree.
C3_AdaptersNeedResolution ==
    /\ (\E t \in ALL_TOOLS : Occurs(<<"invoke", t>>)) => Resolved
    /\ (pc = "firing" /\ spc \in AdapterStages)
          => (scan_target # NONE /\ PathIsDir(scan_target) /\ gitTracked)
    /\ (pc = "firing" /\ spc \in {"finally", "returned"} /\ ~Resolved)
          => (retval = "False" /\ \A t \in ALL_TOOLS : ~Occurs(<<"invoke", t>>))

\* C4: perform_scan returns True exactly when resolution succeeded; adapter
\* skips and failures and a failed rmtree do not change the value.
C4_ReturnIffResolved ==
    spc = "returned" => (retval = "True" <=> Resolved)

C4_Witness ==
    /\ spc = "returned" /\ retval = "True"
    /\ results["detect-secrets"] = "False"
    /\ results["testssl.sh"] = "False"
    /\ Occurs(<<"cleanup", "OSError">>)

\* C5: with a local directory target, nuclei and testssl.sh are never
\* executed (their adapters are not even called), for every tool
\* selection; a requested one is recorded as skipped.
C5_LocalTargetSkips ==
    ~IsURL(target) =>
        \A t \in {"nuclei", "testssl.sh"} :
            /\ ~Occurs(<<"exec", t>>)
            /\ ~Occurs(<<"invoke", t>>)
            /\ (Resolved /\ StageDone(t) /\ t \in Requested)
                  => (Occurs(<<"skip", t>>) /\ results[t] = "skipped")

C5_Witness ==
    /\ ~IsURL(target) /\ spc = "returned" /\ retval = "True"
    /\ Occurs(<<"skip", "nuclei">>)
    /\ Occurs(<<"skip", "testssl.sh">>)
    /\ Occurs(<<"exec", "detect-secrets">>)

\* the job that fired has ended: its last event is the job's own
JobOver ==
    events # << >> /\ Last(events)[1] \in {"consolidate", "failed"}

\* C6: on every firing consolidate_reports is called exactly when
\* perform_scan returned True, and right after that return; during a scan,
\* and after a scan that failed, the consolidated report file is unchanged.
C6_ConsolidateIffSuccess ==
    /\ [](JobOver =>
            /\ events[Len(events) - 1][1] = "returned"
            /\ (Last(events)[1] = "consolidate"
                   <=> events[Len(events) - 1] = <<"returned", "True">>))
    /\ [][(pc = "firing" /\ ~(spc = "returned" /\ retval = "True"))
             => fs'[DEFAULT_OUTPUT] = fs[DEFAULT_OUTPUT]]_vars

C6_Witness ==
    /\ JobOver /\ Last(events) = <<"failed", "logged">>
    /\ fs[DEFAULT_OUTPUT][1] = "json"
    /\ firings = 2

\* C7: with cadence 'once' one scan is run and never a second one, at most
\* one consolidation follows it, the polling loop is never entered, and
\* the terminal state is reached only after that one scan.
C7_OnceRunsOnce ==
    cadence = "once" =>
        /\ firings <= 1
        /\ consolidations <= firings
        /\ pc \notin {"run_pending", "sleep"}
        /\ pc = "exit" => (firings = 1 /\ JobOver)

C7_Witness ==
    /\ cadence = "once" /\ entry = "schedule_scan" /\ pc = "exit"
    /\ firings = 1 /\ consolidations = 1

\* C8: with cadence 'daily', 'weekly' or 'monthly' schedule_scan registers
\* a periodic job and the process never reaches a terminal state.
C8_RecurringNeverTerminates ==
    cadence \in {"daily", "weekly", "monthly"} =>
        /\ pc # "exit"
        /\ pc \in {"run_pending", "sleep", "firing"}
              => remaining \in 0..Period(cadence)

\* a firing of a recurring cadence has failed: the scan returned False, an
\* adapter returned False, or consolidate_reports wrote no report
FiringFailed ==
    /\ cadence \in {"daily", "weekly", "monthly"}
    /\ \/ /\ pc = "firing" /\ spc = "returned"
          /\ \/ retval = "False"
             \/ \E t \in ALL_TOOLS : results[t] = "False"
       \/ /\ pc = "sleep" /\ JobOver
          /\ Last(events)[1] = "consolidate" /\ Last(events)[2] # "written"

FiringStarted == pc = "firing" /\ spc = "resolve"

\* C9: after a firing of a recurring cadence that failed (resolution
\* error, adapter error, I/O error while consolidating), the scheduling
\* loop is still running and the next firing occurs.
C9_NextFiringOccurs == FiringFailed ~> FiringStarted

C9_Witness ==
    /\ FiringFailed /\ pc = "firing" /\ retval = "False"
    /\ firings = 2

\* a call of consolidate_reports has just ended
ConsolidateDone ==
    events # << >> /\ Last(events)[1] \in {"consolidate", "report"}

\* the path that call wrote to
OutFile == IF entry = "report" THEN OutputPath(output) ELSE DEFAULT_OUTPUT

\* the files that call read
ReadFiles == IF entry = "report" THEN before ELSE fs

Unparseable(text) == Exists(text) /\ text[1] # "json"

\* the vulnerability raw file exists and does not hold valid JSON
VulnInvalid(f) ==
    Exists(f[VULN_REPORT_FILENAME]) /\ f[VULN_REPORT_FILENAME][1] # "json"

\* C10: if the vulnerability raw file exists but holds invalid JSON,
\* consolidation still completes and, unless writing the output file itself
\* fails, writes the report, whose 'vulnerabilities' entry is
\* {error: "decode failure"}.
C10_DecodeFailureLiteral ==
    (ConsolidateDone /\ VulnInvalid(ReadFiles)
        /\ Last(events)[2] \notin {"open_fail", "write_fail"})
        => /\ Last(events)[2] = "written"
           /\ fs[OutFile][1] = "json"
           /\ fs[OutFile][2][4] = "vulnerabilities"
           /\ fs[OutFile][2][5] = <<"object", "error", "decode failure">>

\* C11: when the secrets raw file is present but is not JSON, consolidate
\* does not abort: it writes the output file, with an error placeholder
\* under 'secrets' and the other category filled as usual.
C11_SecretsDecodeAbsorbed ==
    (ConsolidateDone /\ Unparseable(ReadFiles[SECRETS_REPORT_FILENAME]))
        => /\ Last(events)[2] # "decode_abort"
           /\ Last(events)[2] = "written"
                 => /\ fs[OutFile][1] = "json"
                    /\ fs[OutFile][2][2] = "secrets"
                    /\ fs[OutFile][2][3][2] = "error"

\* C12 as stated: if the secrets raw file is absent, the 'secrets' entry of
\* the report consolidate writes is exactly {status: "not run"}.
C12_NotRunLiteral ==
    (ConsolidateDone /\ Last(events)[2] = "written"
        /\ ~Exists(ReadFiles[SECRETS_REPORT_FILENAME]))
        => /\ fs[OutFile][1] = "json"
           /\ fs[OutFile][2][3] = <<"object", "status", "not run">>

\* C12 amended: if the secrets raw file is absent, the 'secrets' entry of
\* the report consolidate writes is exactly
\* {status: "No secrets scan performed or no secrets found."}.
C12_SecretsAbsentPlaceholder ==
    (ConsolidateDone /\ Last(events)[2] = "written"
        /\ ~Exists(ReadFiles[SECRETS_REPORT_FILENAME]))
        => /\ fs[OutFile][1] = "json"
           /\ fs[OutFile][2][2] = "secrets"
           /\ fs[OutFile][2][3] =
                 <<"object", "status",
                   "No secrets scan performed or no secrets found.">>

C12_Witness ==
    /\ ConsolidateDone /\ Last(events) = <<"consolidate", "written">>
    /\ ~Exists(fs[SECRETS_REPORT_FILENAME])
    /\ "detect-secrets" \notin Requested
    /\ fs[DEFAULT_OUTPUT][2][3] =
          <<"object", "status", "No secrets scan performed or no secrets found.">>

\* C13: consolidation is idempotent for every output path: a second run of
\* consolidate right after a first one, both writing their report, leaves
\* the output file with the content the first run gave it.
C13_Idempotent ==
    [][(entry = "report" /\ pc = "exit" /\ Last(events)[2] = "written"
          /\ Last(events')[2] = "written")
          => fs'[OutFile] = fs[OutFile]]_vars

\* C14: consolidate never modifies, creates or deletes the raw tool output
\* files, for every output path given to the report command.
C14_RawFilesReadOnly ==
    (entry = "report" /\ ConsolidateDone)
        => /\ fs[SECRETS_REPORT_FILENAME] = before[SECRETS_REPORT_FILENAME]
           /\ fs[VULN_REPORT_FILENAME] = before[VULN_REPORT_FILENAME]

\* C15: the consolidated report file is never in a partial state: it is
\* absent or holds one complete report, also after a failed write.
C15_NeverPartial ==
    \A f \in {DEFAULT_OUTPUT, CUSTOM_OUTPUT} : fs[f][1] \in {"absent", "json"}

\* C16: within one scan no adapter's output file is overwritten by another
\* adapter: the file nuclei produced in this scan is left as it is by the
\* testssl.sh adapter that runs after it.
C16_OwnOutputFile ==
    [][(pc = "firing" /\ spc = "testssl" /\ results["nuclei"] = "True"
          /\ fs[VULN_REPORT_FILENAME] \in {JsonDump(Doc("nuclei")), JsonLines})
          => fs'[VULN_REPORT_FILENAME] = fs[VULN_REPORT_FILENAME]]_vars

\* position of an event in the order of one scan: resolution, SecretScan,
\* VulnScan, TlsAudit, cleanup, return, then what the caller does
Rank(e) ==
    CASE e[1] \in {"makedirs", "clone", "local", "resolved"} -> 1
      [] e[1] \in {"invoke", "exec", "signal", "return", "skip"} ->
            (CASE e[2] = "detect-secrets" -> 2
               [] e[2] = "nuclei" -> 3
               [] OTHER -> 4)
      [] e[1] = "cleanup" -> 5
      [] e[1] = "returned" -> 6
      [] OTHER -> 7

IsInvoke(e) == e[1] = "invoke"

\* the adapter call that began at position i has returned before position j
ReturnedBetween(i, j) ==
    \E k \in (i + 1)..(j - 1) : events[k] = <<"return", events[i][2]>>

\* C17: within one scan the order is resolution, SecretScan, VulnScan,
\* TlsAudit, cleanup; an adapter starts only after the previous one has
\* returned, and the workspace is removed only after every invoked adapter
\* has returned.
C17_ScanOrder ==
    \A j \in 1..Len(events) :
        \* ranks never decrease from one event to the next, hence along
        \* the whole trace
        /\ j > 1 => Rank(events[j - 1]) <= Rank(events[j])
        /\ IsInvoke(events[j])
              => /\ \E i \in 1..(j - 1) : events[i] = <<"resolved", "ok">>
                 /\ \A i \in 1..(j - 1) :
                       IsInvoke(events[i])
                          => (events[i][2] # events[j][2] /\ ReturnedBetween(i, j))
        /\ events[j][1] \in {"exec", "return"}
              => \E i \in 1..(j - 1) : events[i] = <<"invoke", events[j][2]>>
        /\ events[j][1] = "cleanup"
              => \A i \in 1..(j - 1) :
                    IsInvoke(events[i]) => ReturnedBetween(i, j)

C17_Witness ==
    /\ spc = "returned"
    /\ \A t \in ALL_TOOLS : Occurs(<<"exec", t>>) /\ Occurs(<<"return", t>>)
    /\ Occurs(<<"cleanup", "ok">>)
    /\ tempRepo = "absent"

\* C18: every external tool invocation is bounded by a timeout: an adapter
\* whose tool never exits is not blocked for ever, the program can always
\* take a further step (the adapter returns, perform_scan returns and the
\* later firings occur).
C18_HungToolTimesOut == (spc = "hung") => ENABLED Next

NoFindingsSignal == Occurs(<<"signal", "detect-secrets">>)

SecretsEmbedded(v) ==
    (Last(events) = <<"consolidate", "written">>)
        => /\ fs[DEFAULT_OUTPUT][1] = "json"
           /\ fs[DEFAULT_OUTPUT][2][2] = "secrets"
           /\ fs[DEFAULT_OUTPUT][2][3] = v

\* C19 as stated: when detect-secrets gives its "no findings" signal, the
\* adapter reports success and leaves an empty findings document as the
\* secrets raw file, and the consolidation that follows embeds that empty
\* document under 'secrets'.
C19_NoFindingsAlwaysSucceeds ==
    NoFindingsSignal
        => /\ results["detect-secrets"] = "True"
           /\ fs[SECRETS_REPORT_FILENAME] = JsonDump(EmptyObj)
           /\ SecretsEmbedded(EmptyObj)

RawFiles == {SECRETS_REPORT_FILENAME, VULN_REPORT_FILENAME}

\* the adapters whose tool is given the raw file f as its output path
Owners(f) ==
    IF f = SECRETS_REPORT_FILENAME THEN {"detect-secrets"}
    ELSE {"nuclei", "testssl.sh"}

\* the stages of perform_scan in which an owner of f is called
OwnerStages(f) ==
    IF f = SECRETS_REPORT_FILENAME THEN {"secrets"} ELSE {"nuclei", "testssl"}

\* the value the report holds for the category read from the raw file f
Embedded(f) ==
    IF f = SECRETS_REPORT_FILENAME
    THEN fs[DEFAULT_OUTPUT][2][3] ELSE fs[DEFAULT_OUTPUT][2][5]

\* C20: neither perform_scan nor consolidate deletes a raw tool output
\* file, and a raw file changes only in the step of an adapter that owns it
\* and whose tool was executed; so a category whose adapter was not
\* requested, was skipped or failed to run is consolidated from the raw
\* file left earlier, not reported as a placeholder.
C20_StaleRawFilesConsolidated ==
    /\ [][\A f \in RawFiles :
            /\ Exists(fs[f]) => Exists(fs'[f])
            /\ fs'[f] # fs[f]
                  => /\ pc = "firing" /\ spc \in OwnerStages(f)
                     /\ \E t \in Owners(f), i \in 1..Len(events') :
                           events'[i] = <<"exec", t>>]_vars
    /\ [](\A f \in RawFiles :
            (events # << >> /\ Last(events) = <<"consolidate", "written">>
                /\ fs[f][1] = "json")
               => Embedded(f) = fs[f][2])
====
